---- MODULE Spec2Model ----
(***************************************************************************)
(* A model of the image-permute "abstract" generator: the Hilbert ordering *)
(* of the RGB cube (hilbert.cpp), the palette builder and the colour-cube  *)
(* symmetries (colors.cpp), the random spanning tree of the pixel grid and *)
(* its traversals (grid.cpp), the pairing done by main                     *)
(* (main_abstract.cpp), and the pixel swapping of the "permute" program    *)
(* (permutations.cpp).                                                     *)
(*                                                                         *)
(* The colour cube is scaled: a channel has `bits` bits instead of 8, so   *)
(* the cube has 2^(3*bits) colours instead of 2^24.  Every operator below  *)
(* is written for a channel of `bits` bits exactly as the source is        *)
(* written for 8.                                                          *)
(***************************************************************************)
EXTENDS Integers, Sequences, FiniteSets, TLC

VARIABLES
    bits,          \* width of one colour channel (8 in the source)
    lhs, rhs,      \* the arguments handed to the curve functions
    enc,           \* <<hilbert_encode(lhs)>> once it is called, <<>> before
    dec,           \* result of hilbert_decode(enc[1]), or NoColor
    cmp,           \* result of hilbert_compare(lhs, rhs): "unset", "true", "false"
    palette_size,  \* the argument of make_palette
    colors,        \* the vector make_palette fills, then main's palette
    pi,            \* the loop counter i of make_palette
    delta,         \* the double `delta` of make_palette
    ppc,           \* where the palette pipeline stands
    decode_calls,  \* number of hilbert_decode calls make_palette has made
    hac,           \* result of has_all_colors(colors): "unset", "true", "false"
    corrupts,      \* number of entries overwritten after the palette was built
    rows, cols,    \* the dimensions of the grid
    nodes,         \* grid_graph::nodes: one byte per node, indexed from 0
    root,          \* grid_graph::root
    start, here,   \* the loop variables of span
    gpc,           \* where the grid graph stands
    ordering,      \* the traversal returned last
    seed,          \* the seed the run was given
    walked,        \* the nodes the current random walk has left a direction in
    first_run,     \* <<>>, or the result of an earlier run with the same arguments
    traversal,     \* main: the traversal selected on the command line
    transform,     \* main: the colour transform drawn by make_random
    output,        \* main: output.data
    input,         \* the image the output is compared with: rows, cols, data
    dithered,      \* TRUE for compare_and_swap_dithered, FALSE for compare_and_swap
    passes,        \* the argument `passes`
    pass,          \* the loop counter of the passes
    here_idxs,     \* the shuffled vector here_idxs
    there_idxs,    \* the shuffled vector there_idxs
    swi,           \* the loop counter i within a pass
    output_lab,    \* compare_and_swap: the cached Lab value of every output pixel
    blurred_neighbors, \* compare_and_swap_dithered: the weighted sum around every pixel
    original,      \* output.data as it was when the function was called
    spc            \* where the swapping function stands

curveVars == <<lhs, rhs, enc, dec, cmp>>
paletteVars == <<palette_size, colors, pi, delta, ppc, decode_calls, hac, corrupts>>
gridVars == <<rows, cols, nodes, root, start, here, gpc, ordering, seed, first_run, walked>>
mainVars == <<traversal, transform, output>>
swapVars == <<input, dithered, passes, pass, here_idxs, there_idxs, swi, output_lab,
              blurred_neighbors, original, spc>>
vars == <<bits, curveVars, paletteVars, gridVars, mainVars, swapVars>>

\* Channel width of the cube the curve and the palette claims are checked on.
Bits == 2

\* Colours the transitivity of hilbert_compare is checked against: MaxMid + 1 of them.
MaxMid == 15

\* Palette sizes 0 .. MaxPalette are requested, and the full size num_colors.
MaxPalette == 70

\* Width of size_t (64 in the source), scaled with the cube.
SizeBits == 16

\* Bits of the significand of a double (53 in the source), scaled with the cube.
MantBits == 18

\* After the palette is built at most MaxCorrupt entries are overwritten, each
\* among the first MaxCorruptPos, by one of the colours rgb(0 .. MaxCorruptVal).
MaxCorrupt == 2
MaxCorruptPos == 2
MaxCorruptVal == 2

\* Channel width of the cube main runs on: a grid of MaxNodes nodes then has
\* as many pixels as there are colours.
FullBits == 1

\* Grids of 1 .. MaxRows rows and 1 .. MaxCols columns, of at most MaxNodes
\* nodes, are built.
MaxRows == 2
MaxCols == 4
MaxNodes == 8

\* Seeds 0 .. MaxSeed are given to a run.
MaxSeed == 1

\* A run is repeated with the same arguments on grids of at most
\* MaxRerunNodes nodes.
MaxRerunNodes == 4

\* Termination under fair draws is checked on grids of at most MaxFairNodes
\* nodes.
MaxFairNodes == 4

\* compare_and_swap and compare_and_swap_dithered are called on images of at
\* most MaxPixels pixels (and MaxRows rows, MaxCols columns), for at most
\* MaxPasses passes.
MaxPixels == 4
MaxPasses == 1

\* They are also called on the square image of BlurSide rows: the smallest
\* that has a pixel adjacent to no edge, pixels adjacent to one edge, and
\* pairs of pixels that are not neighbours.
BlurSide == 3

\* The fixed-point units of the Lab conversion: a fraction of one is a
\* multiple of 1 / FixedOne, a Lab coordinate a multiple of 1 / LabOne.
FixedOne == 256
LabOne == 16

NoColor == [r |-> -1, g |-> -1, b |-> -1]
NoDouble == [m |-> 0, e |-> 0]

(***************************************************************************)
(* struct rgb (colors.hpp)                                                 *)
(***************************************************************************)
\* Number of values of one channel (256 in the source: uint8_t).
Side == 2 ^ bits

\* rgb::num_colors
num_colors == Side * Side * Side

Colors == [r : 0 .. Side - 1, g : 0 .. Side - 1, b : 0 .. Side - 1]

\* rgb::rgb(unsigned): the three channels of a hex code, each cast to a channel.
rgb(value) ==
    [r |-> (value \div (Side * Side)) % Side,
     g |-> (value \div Side) % Side,
     b |-> value % Side]

\* rgb::operator unsigned()
unsigned(color) == color.r * Side * Side + color.g * Side + color.b

\* ~x stored back into a channel.
Not(x) == (Side - 1) - x

(***************************************************************************)
(* hilbert.cpp                                                             *)
(***************************************************************************)
\* Indexed by order + 1.
octant_for_order == <<0, 2, 6, 4, 5, 7, 3, 1>>

\* Indexed by octant + 1.
order_for_octant == <<0, 7, 1, 6, 3, 4, 2, 5>>

rotate_broken(octant, color) ==
    CASE octant = 0 -> [r |-> color.b, g |-> color.r, b |-> color.g]
      [] octant = 1 -> [r |-> color.r, g |-> Not(color.b), b |-> Not(color.g)]
      [] octant \in {2, 6} -> [r |-> color.g, g |-> color.b, b |-> color.r]
      [] octant \in {3, 7} -> [r |-> color.g, g |-> Not(color.b), b |-> Not(color.r)]
      [] octant \in {4, 5} -> [r |-> color.g, g |-> Not(color.r), b |-> color.b]
      [] OTHER -> color

rotate(octant, color) ==
    CASE octant = 0 -> [r |-> color.b, g |-> color.r, b |-> color.g]
      [] octant = 1 -> [r |-> color.r, g |-> Not(color.b), b |-> Not(color.g)]
      [] octant \in {2, 6} -> [r |-> color.g, g |-> color.b, b |-> color.r]
      [] octant \in {3, 7} -> [r |-> color.g, g |-> Not(color.b), b |-> Not(color.r)]
      [] octant \in {4, 5} -> [r |-> Not(color.g), g |-> Not(color.r), b |-> color.b]
      [] OTHER -> color

irotate_unflipped(octant, color) ==
    CASE octant = 0 -> [r |-> color.g, g |-> color.b, b |-> color.r]
      [] octant = 1 -> [r |-> color.r, g |-> Not(color.b), b |-> Not(color.g)]
      [] octant \in {2, 6} -> [r |-> color.b, g |-> color.r, b |-> color.g]
      [] octant \in {3, 7} -> [r |-> Not(color.b), g |-> color.r, b |-> Not(color.g)]
      [] octant \in {4, 5} -> [r |-> color.g, g |-> color.r, b |-> color.b]
      [] OTHER -> color

irotate(octant, color) ==
    CASE octant = 0 -> [r |-> color.g, g |-> color.b, b |-> color.r]
      [] octant = 1 -> [r |-> color.r, g |-> Not(color.b), b |-> Not(color.g)]
      [] octant \in {2, 6} -> [r |-> color.b, g |-> color.r, b |-> color.g]
      [] octant \in {3, 7} -> [r |-> Not(color.b), g |-> color.r, b |-> Not(color.g)]
      [] octant \in {4, 5} -> [r |-> Not(color.g), g |-> Not(color.r), b |-> color.b]
      [] OTHER -> color

\* Bit k of x (bit 0 is the least significant).
Bit(x, k) == (x \div (2 ^ k)) % 2

\* The mask is the most significant bit of a channel shifted right by step.
get_octant(c, step) ==
    4 * Bit(c.r, bits - 1 - step) + 2 * Bit(c.g, bits - 1 - step)
        + Bit(c.b, bits - 1 - step)

RECURSIVE encode_loop(_, _, _)
encode_loop(c, step, retval) ==
    IF step >= bits THEN retval
    ELSE LET octant == get_octant(c, step)
         IN encode_loop(rotate(octant, c), step + 1,
                retval + order_for_octant[octant + 1] * 2 ^ ((bits - 1 - step) * 3))

hilbert_encode(c) == encode_loop(c, 0, 0)

RECURSIVE decode_loop(_, _, _)
decode_loop(d, i, retval) ==
    IF i >= bits THEN retval
    ELSE LET order == d % 8
             octant == octant_for_order[order + 1]
             turned == irotate(octant, retval)
             msb == Side \div 2
             shifted == [r |-> turned.r \div 2 + (IF Bit(octant, 2) = 1 THEN msb ELSE 0),
                         g |-> turned.g \div 2 + (IF Bit(octant, 1) = 1 THEN msb ELSE 0),
                         b |-> turned.b \div 2 + (IF Bit(octant, 0) = 1 THEN msb ELSE 0)]
         IN decode_loop(d \div 8, i + 1, shifted)

hilbert_decode(d) == decode_loop(d, 0, rgb(0))

RECURSIVE compare_loop(_, _, _)
compare_loop(l, r, order) ==
    IF order >= bits THEN FALSE
    ELSE LET lhs_octant == get_octant(l, order)
             rhs_octant == get_octant(r, order)
         IN IF lhs_octant # rhs_octant
            THEN order_for_octant[lhs_octant + 1] < order_for_octant[rhs_octant + 1]
            ELSE compare_loop(rotate(lhs_octant, l), rotate(rhs_octant, r), order + 1)

hilbert_compare_norotate(l, r) ==
    LET differ == {k \in 0 .. bits - 1 : get_octant(l, k) # get_octant(r, k)}
    IN IF differ = {} THEN FALSE
       ELSE LET order == CHOOSE k \in differ : \A j \in differ : k <= j
            IN order_for_octant[get_octant(l, order) + 1]
                   < order_for_octant[get_octant(r, order) + 1]

hilbert_compare(l, r) == compare_loop(l, r, 0)

(***************************************************************************)
(* double and size_t arithmetic, as make_palette uses it.  A positive      *)
(* double is m * 2^e; a quotient has a significand of MantBits bits,       *)
(* rounded to nearest, ties to even.                                       *)
(***************************************************************************)
Infinity == [m |-> -1, e |-> 0]

\* x - 1 in size_t.
size_minus_one(x) == (x - 1) % (2 ^ SizeBits)

RECURSIVE div_loop(_, _, _, _)
div_loop(m, r, q, e) ==
    IF m >= 2 ^ (MantBits - 1) THEN [m |-> m, r |-> r, e |-> e]
    ELSE IF 2 * r >= q THEN div_loop(2 * m + 1, 2 * r - q, q, e - 1)
                       ELSE div_loop(2 * m, 2 * r, q, e - 1)

\* p / static_cast<double>(q) for integers p > 0, q >= 0.
double_div(p, q) ==
    IF q = 0 THEN Infinity
    ELSE LET t == div_loop(p \div q, p % q, q, 0)
             up == 2 * t.r > q \/ (2 * t.r = q /\ t.m % 2 = 1)
         IN [m |-> IF up THEN t.m + 1 ELSE t.m, e |-> t.e]

RECURSIVE BitLen(_)
BitLen(x) == IF x = 0 THEN 0 ELSE 1 + BitLen(x \div 2)

\* static_cast<double>(i) * d for an integer i >= 0 and a finite double d.
double_mul(i, d) ==
    LET x == i * d.m
        k == BitLen(x) - MantBits
    IN IF k <= 0 THEN [m |-> x, e |-> d.e]
       ELSE LET q == x \div (2 ^ k)
                rem == x % (2 ^ k)
                half == 2 ^ (k - 1)
                up == rem > half \/ (rem = half /\ q % 2 = 1)
            IN [m |-> IF up THEN q + 1 ELSE q, e |-> d.e + k]

to_unsigned_nearest(f) ==
    IF f.e >= 0 THEN f.m * (2 ^ f.e)
    ELSE IF 0 - f.e > 30 THEN 0
    ELSE (f.m + 2 ^ (0 - f.e - 1)) \div (2 ^ (0 - f.e))

\* static_cast<unsigned>(f): truncation of a double that is >= 0.
to_unsigned(f) ==
    IF f.e >= 0 THEN f.m * (2 ^ f.e)
    ELSE IF 0 - f.e > 30 THEN 0
    ELSE f.m \div (2 ^ (0 - f.e))

(***************************************************************************)
(* colors.cpp: make_palette, has_all_colors                                *)
(***************************************************************************)
\* The number of elements the vector can grow to before push_back throws
\* std::bad_alloc; it exceeds every size the model requests.
max_size == num_colors + MaxPalette

\* hilbert_idx of the i-th sample.
sample_index(i, d) == to_unsigned(double_mul(i, d))

last_color_wrong == hilbert_decode(0)

\* The colour pushed after the loop.
last_color == hilbert_decode(num_colors - 1)

count_color_shift(i) == [r |-> (i \div (Side * Side)) % Side,
                         g |-> (i \div (Side * Side)) % Side,
                         b |-> i % Side]

\* colors.emplace_back(i)
count_color(i) == rgb(i)

has_all_colors_nosize(pixels) ==
    \A v \in 0 .. num_colors - 1 :
        \E k \in 1 .. Len(pixels) : unsigned(pixels[k]) = v

has_all_colors(pixels) ==
    IF Len(pixels) # num_colors THEN FALSE
    ELSE LET has_color == {unsigned(pixels[k]) : k \in 1 .. Len(pixels)}
         IN \A v \in 0 .. num_colors - 1 : v \in has_color

(***************************************************************************)
(* main_abstract.cpp: std::sort(palette.begin(), palette.end(),            *)
(* hilbert_compare).  The comparator is applied to pairs of elements; the  *)
(* result is the ordered rearrangement of the input.                       *)
(***************************************************************************)
\* The place of palette[k] in the ordered rearrangement: after every element
\* that precedes it, and after the equal elements that stood before it.
sorted_rank(palette, k) ==
    1 + Cardinality({j \in 1 .. Len(palette) :
                        \/ hilbert_compare(palette[j], palette[k])
                        \/ (j < k /\ ~hilbert_compare(palette[k], palette[j]))})

sort_palette_unsorted(palette) == palette

sort_palette(palette) ==
    LET placed == {<<sorted_rank(palette, k), k>> : k \in 1 .. Len(palette)}
    IN [p \in 1 .. Len(palette) |->
           palette[(CHOOSE pk \in placed : pk[1] = p)[2]]]

(***************************************************************************)
(* grid.cpp                                                                *)
(***************************************************************************)
up == 0
right == 1
down == 2
left == 3

opposite_of(dir) == (dir + 2) % 4

\* at_edge[dir] and child_mask[dir]: one bit of the low nibble per direction.
at_edge(dir) == 2 ^ dir
child_mask(dir) == 2 ^ dir

edge_mask == 15
in_tree_typo == 2 ^ 5

in_tree == 128
parent_mask == 48

\* node & mask # 0 for a mask of one bit.
HasBit(node, mask) == (node \div mask) % 2 = 1

\* node |= mask for a mask of one bit.
SetBit(node, mask) == IF HasBit(node, mask) THEN node ELSE node + mask

get_parent_dir(node) == (node \div 16) % 4

set_parent_dir_keep(node, dir) ==
    IF get_parent_dir(node) # 0 THEN node ELSE node + dir * 16

\* node = (node & ~parent_mask) | (dir << 4)
set_parent_dir(node, dir) == node - get_parent_dir(node) * 16 + dir * 16

\* grid_graph::build_jump_table
jump(dir) ==
    CASE dir = up -> 0 - cols
      [] dir = right -> 1
      [] dir = down -> cols
      [] dir = left -> 0 - 1

directions_unchecked(i) == <<0, 1, 2, 3>>

directions_first(i) ==
    IF ~HasBit(i, at_edge(0)) THEN <<0>>
    ELSE IF ~HasBit(i, at_edge(1)) THEN <<1>>
    ELSE IF ~HasBit(i, at_edge(2)) THEN <<2>>
    ELSE <<3>>

\* The directions build_neighbors_table collects for the pattern i, in order.
directions(i) ==
    LET keep(d) == IF HasBit(i, at_edge(d)) THEN <<>> ELSE <<d>>
    IN keep(0) \o keep(1) \o keep(2) \o keep(3)

neighbors_in_blocks(i, j) ==
    IF i < 15 THEN {directions(i)[((j \div 4) % Len(directions(i))) + 1]} ELSE 0 .. 3

\* neighbors[i][j].  The row of pattern 15 is never written; reading it gives
\* an indeterminate direction.
neighbors(i, j) ==
    IF i < 15 THEN {directions(i)[(j % Len(directions(i))) + 1]} ELSE 0 .. 3

\* grid_graph::reset
reset ==
    [i \in 1 .. rows * cols |->
        (IF i - 1 < cols THEN at_edge(up) ELSE 0)
      + (IF i - 1 >= cols * (rows - 1) THEN at_edge(down) ELSE 0)
      + (IF (i - 1) % cols = 0 THEN at_edge(left) ELSE 0)
      + (IF (i - 1) % cols = cols - 1 THEN at_edge(right) ELSE 0)]

\* The indices a loop `for (int i = first; i < bound; i += step)` meets.  With
\* step <= 0 a loop that starts does not end; its first two indices are given.
strided(first, bound, step) ==
    IF step > 0 THEN {i \in first .. bound - 1 : (i - first) % step = 0}
    ELSE IF first < bound THEN {first, first + step}
    ELSE {}

\* The indices i of the writes nodes[i] |= at_edge[..] of grid_graph::reset.
reset_indices ==
    (0 .. cols - 1)
        \cup (cols * (rows - 1) .. rows * cols - 1)
        \cup strided(0, rows * cols, cols)
        \cup strided(cols - 1, rows * cols, cols)

\* nodes[i] for the 0-based index i of the source.
node_at(i) == nodes[i + 1]

link_children_uncleared(nds) ==
    [p \in 1 .. Len(nds) |->
        LET kids == {d \in 0 .. 3 :
                        \E i \in 0 .. Len(nds) - 1 :
                            /\ i # root
                            /\ opposite_of(get_parent_dir(nds[i + 1])) = d
                            /\ i + jump(get_parent_dir(nds[i + 1])) = p - 1}
        IN nds[p] + (IF 0 \in kids /\ ~HasBit(nds[p], 1) THEN 1 ELSE 0)
                  + (IF 1 \in kids /\ ~HasBit(nds[p], 2) THEN 2 ELSE 0)
                  + (IF 2 \in kids /\ ~HasBit(nds[p], 4) THEN 4 ELSE 0)
                  + (IF 3 \in kids /\ ~HasBit(nds[p], 8) THEN 8 ELSE 0)]

\* grid_graph::link_children: clear the edge bits of every node, then set on
\* the parent of every node but the root the bit of the direction back to it.
link_children(nds) ==
    [p \in 1 .. Len(nds) |->
        LET cleared == nds[p] - (nds[p] % 16)
            kids == {d \in 0 .. 3 :
                        \E i \in 0 .. Len(nds) - 1 :
                            /\ i # root
                            /\ opposite_of(get_parent_dir(nds[i + 1])) = d
                            /\ i + jump(get_parent_dir(nds[i + 1])) = p - 1}
        IN cleared + (IF 0 \in kids THEN 1 ELSE 0) + (IF 1 \in kids THEN 2 ELSE 0)
                   + (IF 2 \in kids THEN 4 ELSE 0) + (IF 3 \in kids THEN 8 ELSE 0)]

children_three_dirs(idx) ==
    LET kid(d) == IF HasBit(node_at(idx), child_mask(d)) THEN <<idx + jump(d)>> ELSE <<>>
    IN kid(0) \o kid(1) \o kid(2)

\* The children of idx in the order the loops over dir meet them.
children(idx) ==
    LET kid(d) == IF HasBit(node_at(idx), child_mask(d)) THEN <<idx + jump(d)>> ELSE <<>>
    IN kid(0) \o kid(1) \o kid(2) \o kid(3)

\* The loop of dfs: unprocessed is the stack, its top at the end.
RECURSIVE dfs_loop(_, _)
dfs_loop(unprocessed, ord) ==
    IF unprocessed = <<>> THEN ord
    ELSE LET idx == unprocessed[Len(unprocessed)]
         IN dfs_loop(SubSeq(unprocessed, 1, Len(unprocessed) - 1) \o children(idx),
                     Append(ord, idx))

\* grid_graph::dfs
dfs == dfs_loop(<<root>>, <<>>)

RECURSIVE bfs_loop_lifo(_, _)
bfs_loop_lifo(unprocessed, ord) ==
    IF unprocessed = <<>> THEN ord
    ELSE LET idx == unprocessed[Len(unprocessed)]
         IN bfs_loop_lifo(SubSeq(unprocessed, 1, Len(unprocessed) - 1) \o children(idx),
                          Append(ord, idx))

\* The loop of bfs: unprocessed is the queue, its front at the head.
RECURSIVE bfs_loop(_, _)
bfs_loop(unprocessed, ord) ==
    IF unprocessed = <<>> THEN ord
    ELSE LET idx == Head(unprocessed)
         IN bfs_loop(Tail(unprocessed) \o children(idx), Append(ord, idx))

\* grid_graph::bfs
bfs == bfs_loop(<<root>>, <<>>)

RECURSIVE heights_loop_from_front(_, _)
heights_loop_from_front(ord, heights) ==
    IF ord = <<>> THEN heights
    ELSE LET idx == ord[1]
             kids == children(idx)
             over == {heights[kids[k] + 1] + 1 : k \in 1 .. Len(kids)} \cup {0}
             height == CHOOSE h \in over : \A g \in over : g <= h
         IN heights_loop_from_front(SubSeq(ord, 2, Len(ord)),
                                    [heights EXCEPT ![idx + 1] = height])

\* The first loop of sdfs: the preorder is consumed from its back; heights is
\* indexed by node + 1 and starts as zeros.
RECURSIVE heights_loop(_, _)
heights_loop(ord, heights) ==
    IF ord = <<>> THEN heights
    ELSE LET idx == ord[Len(ord)]
             kids == children(idx)
             over == {heights[kids[k] + 1] + 1 : k \in 1 .. Len(kids)} \cup {0}
             height == CHOOSE h \in over : \A g \in over : g <= h
         IN heights_loop(SubSeq(ord, 1, Len(ord) - 1),
                         [heights EXCEPT ![idx + 1] = height])

\* The inner loop of the sort of the children: children[j] moves towards the
\* front while the one before it is lower.
RECURSIVE sink(_, _, _)
sink(kids, j, heights) ==
    IF j > 1 /\ heights[kids[j - 1] + 1] < heights[kids[j] + 1]
    THEN sink([kids EXCEPT ![j - 1] = kids[j], ![j] = kids[j - 1]], j - 1, heights)
    ELSE kids

sort_children_unsorted(kids, i, heights) == kids

RECURSIVE sort_children(_, _, _)
sort_children(kids, i, heights) ==
    IF i > Len(kids) THEN kids
    ELSE sort_children(sink(kids, i, heights), i + 1, heights)

\* The second loop of sdfs.
RECURSIVE sdfs_loop(_, _, _)
sdfs_loop(dfs_stack, ord, heights) ==
    IF dfs_stack = <<>> THEN ord
    ELSE LET node_idx == dfs_stack[Len(dfs_stack)]
         IN sdfs_loop(SubSeq(dfs_stack, 1, Len(dfs_stack) - 1)
                          \o sort_children(children(node_idx), 2, heights),
                      Append(ord, node_idx), heights)

\* grid_graph::sdfs
sdfs ==
    sdfs_loop(<<root>>, <<>>, heights_loop(dfs, [i \in 1 .. rows * cols |-> 0]))

(***************************************************************************)
(* colors.cpp: color_transform                                             *)
(***************************************************************************)
\* The outcomes of the shuffle of axis_order.
AxisOrders ==
    {a \in [1 .. 3 -> 0 .. 2] : \A i, j \in 1 .. 3 : i # j => a[i] # a[j]}

\* color_transform::make_random: a shuffled axis_order and three flips.
Transforms == [axis_order : AxisOrders, axis_inverted : [1 .. 3 -> BOOLEAN]]

apply_transform_first_axis(t, color) ==
    LET channels == <<IF t.axis_inverted[1] THEN Not(color.r) ELSE color.r,
                      IF t.axis_inverted[2] THEN Not(color.g) ELSE color.g,
                      IF t.axis_inverted[3] THEN Not(color.b) ELSE color.b>>
    IN [r |-> channels[t.axis_order[1] + 1],
        g |-> channels[t.axis_order[1] + 1],
        b |-> channels[t.axis_order[3] + 1]]

\* color_transform::operator()
apply_transform(t, color) ==
    LET channels == <<IF t.axis_inverted[1] THEN Not(color.r) ELSE color.r,
                      IF t.axis_inverted[2] THEN Not(color.g) ELSE color.g,
                      IF t.axis_inverted[3] THEN Not(color.b) ELSE color.b>>
    IN [r |-> channels[t.axis_order[1] + 1],
        g |-> channels[t.axis_order[2] + 1],
        b |-> channels[t.axis_order[3] + 1]]

(***************************************************************************)
(* main_abstract.cpp                                                       *)
(***************************************************************************)
\* The loop output.data[ordering[i]] = palette[i], i from k to the size of
\* the palette; out is indexed by position + 1.
RECURSIVE copy_loop(_, _, _, _)
copy_loop(out, ord, palette, k) ==
    IF k > Len(palette) THEN out
    ELSE copy_loop([out EXCEPT ![ord[k] + 1] = palette[k]], ord, palette, k + 1)

(***************************************************************************)
(* The curve functions applied to every colour and every pair of colours.  *)
(***************************************************************************)
\* The variables of a part of the program a specification does not run.
CurveIdle ==
    /\ lhs = NoColor
    /\ rhs = NoColor
    /\ enc = <<>>
    /\ dec = NoColor
    /\ cmp = "unset"

PaletteIdle ==
    /\ palette_size = 0
    /\ colors = <<>>
    /\ pi = 0
    /\ delta = NoDouble
    /\ ppc = "idle"
    /\ decode_calls = 0
    /\ hac = "unset"
    /\ corrupts = 0

GridIdle ==
    /\ rows = 0
    /\ cols = 0
    /\ nodes = <<>>
    /\ root = 0
    /\ start = 0
    /\ here = 0
    /\ gpc = "idle"
    /\ ordering = <<>>
    /\ seed = 0
    /\ first_run = <<>>
    /\ walked = {}

NoTransform == [axis_order |-> <<0, 1, 2>>, axis_inverted |-> <<FALSE, FALSE, FALSE>>]

MainIdle ==
    /\ traversal = "none"
    /\ transform = NoTransform
    /\ output = <<>>

NoImage == [rows |-> 0, cols |-> 0, data |-> <<>>]

SwapIdle ==
    /\ input = NoImage
    /\ dithered = FALSE
    /\ passes = 0
    /\ pass = 0
    /\ here_idxs = <<>>
    /\ there_idxs = <<>>
    /\ swi = 0
    /\ output_lab = <<>>
    /\ blurred_neighbors = <<>>
    /\ original = <<>>
    /\ spc = "idle"

InitCurve ==
    /\ SwapIdle
    /\ bits = Bits
    /\ lhs \in Colors
    /\ rhs \in Colors
    /\ enc = <<>>
    /\ dec = NoColor
    /\ cmp = "unset"
    /\ PaletteIdle
    /\ GridIdle
    /\ MainIdle

Encode ==
    /\ enc = <<>>
    /\ cmp = "unset"
    /\ enc' = <<hilbert_encode(lhs)>>
    /\ UNCHANGED <<swapVars, bits, lhs, rhs, dec, cmp, paletteVars, gridVars, mainVars>>

Decode ==
    /\ enc # <<>>
    /\ dec = NoColor
    /\ dec' = hilbert_decode(enc[1])
    /\ UNCHANGED <<swapVars, bits, lhs, rhs, enc, cmp, paletteVars, gridVars, mainVars>>

Compare ==
    /\ enc = <<>>
    /\ cmp = "unset"
    /\ cmp' = IF hilbert_compare(lhs, rhs) THEN "true" ELSE "false"
    /\ UNCHANGED <<swapVars, bits, lhs, rhs, enc, dec, paletteVars, gridVars, mainVars>>

NextCurve == Encode \/ Decode \/ Compare

SpecCurve == InitCurve /\ [][NextCurve]_vars

(***************************************************************************)
(* make_palette called with every size, followed by main's sort, by        *)
(* has_all_colors, and by overwriting entries as the test of               *)
(* has_all_colors does.                                                    *)
(***************************************************************************)
PaletteSizes == (0 .. MaxPalette) \cup {num_colors}

InitPalette ==
    /\ SwapIdle
    /\ bits = Bits
    /\ CurveIdle
    /\ GridIdle
    /\ MainIdle
    /\ palette_size \in PaletteSizes
    /\ colors = <<>>
    /\ pi = 0
    /\ delta = NoDouble
    /\ ppc = "call"
    /\ decode_calls = 0
    /\ hac = "unset"
    /\ corrupts = 0

\* make_palette up to the first loop: the branch on the size, and delta.
MakePaletteEnter ==
    /\ ppc = "call"
    /\ IF palette_size = num_colors
       THEN /\ ppc' = "count"
            /\ delta' = delta
       ELSE /\ ppc' = "sample"
            /\ delta' = double_div(num_colors, size_minus_one(palette_size))
    /\ UNCHANGED <<swapVars, bits, curveVars, gridVars, mainVars, palette_size, colors, pi, decode_calls, hac, corrupts>>

\* One iteration of the counting loop.
CountStep ==
    /\ ppc = "count"
    /\ pi < num_colors
    /\ colors' = Append(colors, count_color(pi))
    /\ pi' = pi + 1
    /\ UNCHANGED <<swapVars, bits, curveVars, gridVars, mainVars, palette_size, delta, ppc, decode_calls, hac, corrupts>>

CountReturn ==
    /\ ppc = "count"
    /\ pi >= num_colors
    /\ ppc' = "returned"
    /\ UNCHANGED <<swapVars, bits, curveVars, gridVars, mainVars, palette_size, colors, pi, delta, decode_calls, hac, corrupts>>

\* One iteration of the sampling loop.
SampleStep ==
    /\ ppc = "sample"
    /\ pi < size_minus_one(palette_size)
    /\ Len(colors) < max_size
    /\ colors' = Append(colors, hilbert_decode(sample_index(pi, delta)))
    /\ decode_calls' = decode_calls + 1
    /\ pi' = pi + 1
    /\ UNCHANGED <<swapVars, bits, curveVars, gridVars, mainVars, palette_size, delta, ppc, hac, corrupts>>

\* push_back cannot grow the vector: std::bad_alloc leaves make_palette.
SampleBadAlloc ==
    /\ ppc = "sample"
    /\ pi < size_minus_one(palette_size)
    /\ Len(colors) >= max_size
    /\ decode_calls' = decode_calls + 1
    /\ ppc' = "bad_alloc"
    /\ UNCHANGED <<swapVars, bits, curveVars, gridVars, mainVars, palette_size, colors, pi, delta, hac, corrupts>>

\* After the loop: push the last colour and return.
SampleLast ==
    /\ ppc = "sample"
    /\ pi >= size_minus_one(palette_size)
    /\ colors' = Append(colors, last_color)
    /\ decode_calls' = decode_calls + 1
    /\ ppc' = "returned"
    /\ UNCHANGED <<swapVars, bits, curveVars, gridVars, mainVars, palette_size, pi, delta, hac, corrupts>>

\* main: std::sort(palette.begin(), palette.end(), hilbert_compare)
SortPalette ==
    /\ ppc = "returned"
    /\ corrupts = 0
    /\ colors' = sort_palette(colors)
    /\ ppc' = "sorted"
    /\ hac' = "unset"
    /\ UNCHANGED <<swapVars, bits, curveVars, gridVars, mainVars, palette_size, pi, delta, decode_calls, corrupts>>

CheckAllColors ==
    /\ ppc \in {"returned", "sorted"}
    /\ hac = "unset"
    /\ hac' = IF has_all_colors(colors) THEN "true" ELSE "false"
    /\ UNCHANGED <<swapVars, bits, curveVars, gridVars, mainVars, palette_size, colors, pi, delta, ppc, decode_calls, corrupts>>

\* The test overwrites an entry of a full palette.
Corrupt ==
    /\ ppc \in {"returned", "sorted"}
    /\ palette_size = num_colors
    /\ corrupts < MaxCorrupt
    /\ \E pos \in 1 .. MaxCorruptPos, v \in 0 .. MaxCorruptVal :
           /\ pos <= Len(colors)
           /\ v < num_colors
           /\ colors' = [colors EXCEPT ![pos] = rgb(v)]
    /\ corrupts' = corrupts + 1
    /\ hac' = "unset"
    /\ UNCHANGED <<swapVars, bits, curveVars, gridVars, mainVars, palette_size, pi, delta, ppc, decode_calls>>

NextPalette ==
    \/ MakePaletteEnter
    \/ CountStep
    \/ CountReturn
    \/ SampleStep
    \/ SampleBadAlloc
    \/ SampleLast
    \/ SortPalette
    \/ CheckAllColors
    \/ Corrupt

SpecPalette == InitPalette /\ [][NextPalette]_vars

(***************************************************************************)
(* A grid graph of every size: construction, span, and a traversal.        *)
(***************************************************************************)
InitGrid ==
    /\ SwapIdle
    /\ bits = Bits
    /\ CurveIdle
    /\ PaletteIdle
    /\ MainIdle
    /\ rows \in (0 - 1) .. MaxRows
    /\ cols \in (0 - 1) .. MaxCols
    /\ rows * cols <= MaxNodes
    /\ nodes = <<>>
    /\ root = 0
    /\ start = 0
    /\ here = 0
    /\ gpc = "construct"
    /\ ordering = <<>>
    /\ seed \in 0 .. MaxSeed
    /\ first_run = <<>>
    /\ walked = {}

\* grid_graph::grid_graph: the tables, and nodes.resize(rows * cols).  A
\* negative int product converts to a size_t above max_size(), and resize
\* throws std::length_error.
Construct ==
    /\ gpc = "construct"
    /\ IF rows * cols < 0
       THEN /\ nodes' = nodes
            /\ gpc' = "length_error"
       ELSE /\ nodes' = [i \in 1 .. rows * cols |-> 0]
            /\ gpc' = "span"
    /\ UNCHANGED <<swapVars, bits, curveVars, paletteVars, mainVars, rows, cols, seed, first_run, walked, root, start, here, ordering>>

\* span up to its loop: reset, the draw of the root, the root put in the tree.
SpanBegin ==
    /\ gpc = "span"
    /\ reset_indices \subseteq 0 .. Len(nodes) - 1
    /\ \E rnd_node \in 0 .. Len(nodes) - 1 :
           /\ root' = rnd_node
           /\ nodes' = [reset EXCEPT ![rnd_node + 1] = SetBit(@, in_tree)]
    /\ start' = 0
    /\ here' = 0
    /\ gpc' = "walk"
    /\ walked' = {}
    /\ UNCHANGED <<swapVars, bits, curveVars, paletteVars, mainVars, rows, cols, seed, first_run, ordering>>

\* reset writes nodes[i] for an i outside the vector: the behaviour is
\* undefined from here on.
SpanResetOutOfRange ==
    /\ gpc = "span"
    /\ ~(reset_indices \subseteq 0 .. Len(nodes) - 1)
    /\ gpc' = "undefined"
    /\ UNCHANGED <<swapVars, bits, curveVars, paletteVars, mainVars, rows, cols, seed, first_run, walked, nodes, root, start, here, ordering>>

WalkStepInTree ==
    /\ gpc = "walk"
    /\ \E parent_dir \in UNION {neighbors(node_at(here) % 16, d12) : d12 \in 0 .. 11} :
           /\ nodes' = [nodes EXCEPT ![here + 1] = set_parent_dir(@, parent_dir)]
           /\ here' = here + jump(parent_dir)
    /\ walked' = walked \cup {here}
    /\ UNCHANGED <<swapVars, bits, curveVars, paletteVars, mainVars, rows, cols, seed, first_run, root, start, gpc, ordering>>

\* One iteration of the first while loop: a random step from here, in the
\* direction the table holds for one of the draws d12 of 0 .. 11.
WalkStep ==
    /\ gpc = "walk"
    /\ ~HasBit(node_at(here), in_tree)
    /\ \E parent_dir \in UNION {neighbors(node_at(here) % 16, d12) : d12 \in 0 .. 11} :
           /\ nodes' = [nodes EXCEPT ![here + 1] = set_parent_dir(@, parent_dir)]
           /\ here' = here + jump(parent_dir)
    /\ walked' = walked \cup {here}
    /\ UNCHANGED <<swapVars, bits, curveVars, paletteVars, mainVars, rows, cols, seed, first_run, root, start, gpc, ordering>>

\* The walk reached the tree: here = start, and on to the second loop.
WalkEnd ==
    /\ gpc = "walk"
    /\ HasBit(node_at(here), in_tree)
    /\ here' = start
    /\ gpc' = "commit"
    /\ UNCHANGED <<swapVars, bits, curveVars, paletteVars, mainVars, rows, cols, seed, first_run, walked, nodes, root, start, ordering>>

\* One iteration of the second while loop: mark here, follow its direction.
CommitStep ==
    /\ gpc = "commit"
    /\ ~HasBit(node_at(here), in_tree)
    /\ nodes' = [nodes EXCEPT ![here + 1] = SetBit(@, in_tree)]
    /\ here' = here + jump(get_parent_dir(node_at(here)))
    /\ UNCHANGED <<swapVars, bits, curveVars, paletteVars, mainVars, rows, cols, seed, first_run, walked, root, start, gpc, ordering>>

\* The path is committed: the next start, or link_children after the last.
CommitEnd ==
    /\ gpc = "commit"
    /\ HasBit(node_at(here), in_tree)
    /\ start' = start + 1
    /\ IF start + 1 < Len(nodes)
       THEN /\ here' = start + 1
            /\ gpc' = "walk"
            /\ nodes' = nodes
       ELSE /\ here' = here
            /\ gpc' = "built"
            /\ nodes' = link_children(nodes)
    /\ walked' = {}
    /\ UNCHANGED <<swapVars, bits, curveVars, paletteVars, mainVars, rows, cols, seed, first_run, root, ordering>>

Dfs ==
    /\ gpc = "built"
    /\ ordering' = dfs
    /\ gpc' = "dfs"
    /\ UNCHANGED <<swapVars, bits, curveVars, paletteVars, mainVars, rows, cols, seed, first_run, walked, nodes, root, start, here>>

Sdfs ==
    /\ gpc = "built"
    /\ ordering' = sdfs
    /\ gpc' = "sdfs"
    /\ UNCHANGED <<swapVars, bits, curveVars, paletteVars, mainVars, rows, cols, seed, first_run, walked, nodes, root, start, here>>

Bfs ==
    /\ gpc = "built"
    /\ ordering' = bfs
    /\ gpc' = "bfs"
    /\ UNCHANGED <<swapVars, bits, curveVars, paletteVars, mainVars, rows, cols, seed, first_run, walked, nodes, root, start, here>>

\* The program is run a second time with the same rows, cols, seed: the first
\* run's root, tree, selector and traversal are kept for comparison.
Rerun ==
    /\ gpc \in {"dfs", "sdfs", "bfs"}
    /\ first_run = <<>>
    /\ rows * cols <= MaxRerunNodes
    /\ first_run' = <<[root |-> root, nodes |-> nodes, selector |-> gpc,
                       ordering |-> ordering]>>
    /\ nodes' = <<>>
    /\ root' = 0
    /\ start' = 0
    /\ here' = 0
    /\ ordering' = <<>>
    /\ walked' = {}
    /\ gpc' = "construct"
    /\ UNCHANGED <<swapVars, bits, curveVars, paletteVars, mainVars, rows, cols, seed>>

NextGrid ==
    \/ Construct
    \/ SpanBegin
    \/ SpanResetOutOfRange
    \/ WalkStep
    \/ WalkEnd
    \/ CommitStep
    \/ CommitEnd
    \/ Dfs
    \/ Sdfs
    \/ Bfs
    \/ Rerun

SpecGrid == InitGrid /\ [][NextGrid]_vars

\* The nodes one step of the walk away from a node of `seen`, with `seen`.
one_step(seen) ==
    seen \cup
        {p[1] + jump(p[2]) :
            p \in {q \in seen \X (0 .. 3) : ~HasBit(node_at(q[1]), at_edge(q[2]))}}

\* The least number of steps of the walk from a node of `seen` to an in-tree
\* node, counted from k.
RECURSIVE steps_to_tree(_, _)
steps_to_tree(seen, k) ==
    IF \E i \in seen : HasBit(node_at(i), in_tree) THEN k
    ELSE IF one_step(seen) = seen THEN k + Len(nodes)
    ELSE steps_to_tree(one_step(seen), k + 1)

\* A step of the walk from node h that leads nearer to the tree.
WalkNearer(h) ==
    /\ WalkStep
    /\ here = h
    /\ steps_to_tree({here'}, 0) < steps_to_tree({h}, 0)

\* The program runs on, and the draws of d12 are fair: at a node the walk
\* comes to again and again, a draw that leads nearer to the tree is made at
\* some time.
FairGrid ==
    /\ WF_vars(Construct)
    /\ WF_vars(SpanBegin)
    /\ WF_vars(WalkEnd)
    /\ WF_vars(CommitStep)
    /\ WF_vars(CommitEnd)
    /\ \A h \in 0 .. MaxFairNodes - 1 : SF_vars(WalkNearer(h))

\* The grids of at most MaxFairNodes nodes.
InitGridFair == InitGrid /\ rows * cols <= MaxFairNodes

SpecGridFair == InitGridFair /\ [][NextGrid]_vars /\ FairGrid

(***************************************************************************)
(* main of the abstract generator: the palette, the sort, the transform,   *)
(* the spanning tree, the traversal and the copy to the output.            *)
(***************************************************************************)
InitAbstract ==
    /\ SwapIdle
    /\ bits = FullBits
    /\ CurveIdle
    /\ rows \in 1 .. MaxRows
    /\ cols \in 1 .. MaxCols
    /\ rows * cols <= MaxNodes
    /\ traversal = "none"
    /\ transform = NoTransform
    /\ output = <<>>
    /\ palette_size = rows * cols
    /\ colors = <<>>
    /\ pi = 0
    /\ delta = NoDouble
    /\ ppc = "call"
    /\ decode_calls = 0
    /\ hac = "unset"
    /\ corrupts = 0
    /\ nodes = <<>>
    /\ root = 0
    /\ start = 0
    /\ here = 0
    /\ gpc = "idle"
    /\ ordering = <<>>
    /\ seed = 0
    /\ first_run = <<>>
    /\ walked = {}

\* make_random, the transform applied to every colour of the palette, and on
\* to the construction of the graph.
Transform ==
    /\ ppc = "sorted"
    /\ gpc = "idle"
    /\ \E t \in Transforms :
           /\ transform' = t
           /\ colors' = [i \in 1 .. Len(colors) |-> apply_transform(t, colors[i])]
    /\ ppc' = "transformed"
    /\ gpc' = "construct"
    /\ UNCHANGED <<swapVars, bits, curveVars, palette_size, pi, delta, decode_calls, hac, corrupts,
                   rows, cols, seed, first_run, walked, nodes, root, start, here, ordering, traversal, output>>

\* The traversal the command line selects (sdfs unless -dfs or -bfs is given).
Order ==
    /\ gpc = "built"
    /\ \E selected \in {"sdfs", "dfs", "bfs"} :
           /\ traversal' = selected
           /\ ordering' = CASE selected = "bfs" -> bfs
                             [] selected = "dfs" -> dfs
                             [] OTHER -> sdfs
    /\ gpc' = "ordered"
    /\ UNCHANGED <<swapVars, bits, curveVars, paletteVars, transform, output,
                   rows, cols, seed, first_run, walked, nodes, root, start, here>>

\* The pixels copied to the output in the traversal order.
Output ==
    /\ gpc = "ordered"
    /\ output' = copy_loop([i \in 1 .. rows * cols |-> rgb(0)], ordering, colors, 1)
    /\ gpc' = "output"
    /\ UNCHANGED <<swapVars, bits, curveVars, paletteVars, traversal, transform,
                   rows, cols, seed, first_run, walked, nodes, root, start, here, ordering>>

\* -check: has_all_colors(output.data)
Check ==
    /\ gpc = "output"
    /\ hac' = IF has_all_colors(output) THEN "true" ELSE "false"
    /\ gpc' = "checked"
    /\ UNCHANGED <<swapVars, bits, curveVars, mainVars, palette_size, colors, pi, delta, ppc,
                   decode_calls, corrupts, rows, cols, seed, first_run, walked, nodes, root, start, here, ordering>>

NextAbstract ==
    \/ (gpc = "idle" /\ MakePaletteEnter)
    \/ (gpc = "idle" /\ CountStep)
    \/ (gpc = "idle" /\ CountReturn)
    \/ (gpc = "idle" /\ SampleStep)
    \/ (gpc = "idle" /\ SampleLast)
    \/ (gpc = "idle" /\ SortPalette)
    \/ Transform
    \/ Construct
    \/ SpanBegin
    \/ WalkStep
    \/ WalkEnd
    \/ CommitStep
    \/ CommitEnd
    \/ Order
    \/ Output
    \/ Check

SpecAbstract == InitAbstract /\ [][NextAbstract]_vars

(***************************************************************************)
(* compare_and_swap and compare_and_swap_dithered (permutations.cpp)       *)
(*                                                                         *)
(* The Lab conversion is computed in fixed point: a fraction of one is a   *)
(* multiple of 1 / FixedOne, a Lab coordinate a multiple of 1 / LabOne.    *)
(* The blurred sums of the dithered variant are floats the model does not  *)
(* compute; its comparison `swapped < current` is a choice, except where   *)
(* both sides are the same expression.                                     *)
(***************************************************************************)

\* The product and the roots of fractions of FixedOne.
fmul(a, b) == (a * b) \div FixedOne

RECURSIVE root5(_, _, _)
root5(t, lo, hi) ==
    IF lo >= hi THEN lo
    ELSE LET mid == (lo + hi + 1) \div 2
             sq == fmul(mid, mid)
         IN  IF fmul(fmul(sq, sq), mid) <= t THEN root5(t, mid, hi)
             ELSE root5(t, lo, mid - 1)

RECURSIVE root3(_, _, _)
root3(t, lo, hi) ==
    IF lo >= hi THEN lo
    ELSE LET mid == (lo + hi + 1) \div 2
         IN  IF fmul(fmul(mid, mid), mid) <= t THEN root3(t, mid, hi)
             ELSE root3(t, lo, mid - 1)

\* std::pow(t, 2.4) = t^2 * (t^2)^(1/5)
pow_2_4(t) == fmul(fmul(t, t), root5(fmul(t, t), 0, FixedOne))

\* One channel of xyz::xyz(rgb_float const &): v / 255 made linear.
linear(v) ==
    LET c == (v * FixedOne) \div (Side - 1)
    IN  IF 100000 * c > 4045 * FixedOne
        THEN pow_2_4((1000 * c + 55 * FixedOne) \div 1055)
        ELSE (100 * c) \div 1292

\* xyz::xyz(rgb_float const &), each coordinate divided by 100.
xyz(color) ==
    LET r == linear(color.r)
        g == linear(color.g)
        b == linear(color.b)
    IN  [x |-> (4124 * r + 3576 * g + 1805 * b) \div 10000,
         y |-> (2126 * r + 7152 * g + 722 * b) \div 10000,
         z |-> (193 * r + 1192 * g + 9505 * b) \div 10000]

\* The function lab::lab(xyz const &) applies to each coordinate.
lab_f(t) ==
    IF 1000000 * t > 8856 * FixedOne THEN root3(t, 0, FixedOne)
    ELSE (7787 * t) \div 1000 + (16 * FixedOne) \div 116

\* lab::lab(rgb const &) = lab {xyz {rgb_float {color}}}
lab(color) ==
    LET c == xyz(color)
        x == lab_f((c.x * 100000) \div 95047)
        y == lab_f(c.y)
        z == lab_f((c.z * 100000) \div 108883)
    IN  [L |-> ((116 * y - 16 * FixedOne) * LabOne) \div FixedOne,
         a |-> (500 * (x - y) * LabOne) \div FixedOne,
         b |-> (200 * (y - z) * LabOne) \div FixedOne]

diff2(l, r) ==
    (l.L - r.L) * (l.L - r.L) + (l.a - r.a) * (l.a - r.a) + (l.b - r.b) * (l.b - r.b)

\* permutations.cpp: TOP, BOTTOM, LEFT, RIGHT and edges().
TOP == 1
BOTTOM == 2
LEFT == 4
RIGHT == 8

edges(row, col, nrows, ncols) ==
    (IF row = 0 THEN TOP ELSE 0) + (IF row = nrows - 1 THEN BOTTOM ELSE 0)
        + (IF col = 0 THEN LEFT ELSE 0) + (IF col = ncols - 1 THEN RIGHT ELSE 0)

\* The neighbours <<row offset, column offset>> that the switch of blur_around
\* and of update_blur reaches for a region.  A pixel adjacent to more than two
\* edges takes the default case, that of an interior pixel.
kernel(region) ==
    CASE region = TOP -> {<<0, -1>>, <<0, 1>>, <<1, -1>>, <<1, 0>>, <<1, 1>>}
      [] region = BOTTOM -> {<<-1, -1>>, <<-1, 0>>, <<-1, 1>>, <<0, -1>>, <<0, 1>>}
      [] region = LEFT -> {<<-1, 0>>, <<-1, 1>>, <<0, 1>>, <<1, 0>>, <<1, 1>>}
      [] region = RIGHT -> {<<-1, -1>>, <<-1, 0>>, <<0, -1>>, <<1, -1>>, <<1, 0>>}
      [] region = TOP + LEFT -> {<<0, 1>>, <<1, 0>>, <<1, 1>>}
      [] region = TOP + RIGHT -> {<<0, -1>>, <<1, -1>>, <<1, 0>>}
      [] region = BOTTOM + LEFT -> {<<-1, 0>>, <<-1, 1>>, <<0, 1>>}
      [] region = BOTTOM + RIGHT -> {<<-1, -1>>, <<-1, 0>>, <<0, -1>>}
      [] OTHER -> {<<-1, -1>>, <<-1, 0>>, <<-1, 1>>, <<0, -1>>, <<0, 1>>,
                   <<1, -1>>, <<1, 0>>, <<1, 1>>}

\* The indices array(row + dr, col + dc) = data[(row + dr) * cols + col + dc]
\* that blur_around and update_blur touch around a position.
touched(pos) ==
    LET col == pos % input.cols
        row == pos \div input.cols
    IN  {(row + d[1]) * input.cols + col + d[2] :
            d \in kernel(edges(row, col, input.rows, input.cols))}

in_range(pos) == touched(pos) \subseteq 0 .. input.rows * input.cols - 1

\* What std::shuffle can leave in a vector holding 0 .. n - 1: every
\* ordering of a vector of at most MaxPixels entries; for a longer one, the
\* rotations of 0 .. n - 1 by 0, by 1 and by half its length.
shuffled(n) ==
    IF n <= MaxPixels
    THEN {[i \in 1 .. n |-> p[i] - 1] : p \in Permutations(1 .. n)}
    ELSE {[i \in 1 .. n |-> (i - 1 + k) % n] : k \in {0, 1, n \div 2}}

\* rgb_float: a static_cast<float> of each channel, and the operators on the
\* three floats.  The values the functions below compute are integers of at
\* most 12 * 255 in absolute value, which a float holds exactly.
rgb_float(c) == [r |-> c.r, g |-> c.g, b |-> c.b]

plus(x, y) == [r |-> x.r + y.r, g |-> x.g + y.g, b |-> x.b + y.b]

minus(x, y) == [r |-> x.r - y.r, g |-> x.g - y.g, b |-> x.b - y.b]

times(x, f) == [r |-> x.r * f, g |-> x.g * f, b |-> x.b * f]

\* The factor of a neighbour in blur_around and update_blur: 2.0 beside,
\* above and below, 1.0 on the diagonals.
weight(d) == IF d[1] = 0 \/ d[2] = 0 THEN 2 ELSE 1

\* The eight neighbours in the order of the default case of the switches.
around == <<<<-1, -1>>, <<-1, 0>>, <<-1, 1>>, <<0, -1>>, <<0, 1>>,
            <<1, -1>>, <<1, 0>>, <<1, 1>>>>

\* blur_around(array, neighborhood): the weighted sum of the neighbours the
\* kernel of the region names; `stray` is what a read outside array.data gives.
RECURSIVE blur_sum(_, _, _, _)
blur_sum(array, pos, stray, k) ==
    IF k > Len(around) THEN [r |-> 0, g |-> 0, b |-> 0]
    ELSE LET col == pos % input.cols
             row == pos \div input.cols
             d == around[k]
             at == (row + d[1]) * input.cols + col + d[2]
             read == IF at \in 0 .. Len(array) - 1 THEN array[at + 1] ELSE stray
             rest == blur_sum(array, pos, stray, k + 1)
         IN  IF d \in kernel(edges(row, col, input.rows, input.cols))
             THEN plus(times(rgb_float(read), weight(d)), rest)
             ELSE rest

blur_around(array, neighborhood, stray) == blur_sum(array, neighborhood, stray, 1)

update_blur_unweighted(array, neighborhood, change) ==
    LET col == neighborhood % input.cols
        row == neighborhood \div input.cols
        cells == kernel(edges(row, col, input.rows, input.cols))
        hits(at) == {d \in cells : (row + d[1]) * input.cols + col + d[2] = at}
    IN  [k \in 1 .. Len(array) |-> plus(array[k], times(change, Cardinality(hits(k - 1))))]

\* update_blur(array, neighborhood, delta): every neighbour the kernel of the
\* region names gains the change `delta` times its weight.  A write outside array.data
\* is not a write to the array.
update_blur(array, neighborhood, change) ==
    LET col == neighborhood % input.cols
        row == neighborhood \div input.cols
        cells == kernel(edges(row, col, input.rows, input.cols))
        hits(at) == {d \in cells : (row + d[1]) * input.cols + col + d[2] = at}
        gain(at) == 2 * Cardinality({d \in hits(at) : weight(d) = 2})
                        + Cardinality({d \in hits(at) : weight(d) = 1})
    IN  [k \in 1 .. Len(array) |-> plus(array[k], times(change, gain(k - 1)))]

\* std::swap(array[here], array[there])
swap(array, h, t) == [array EXCEPT ![h + 1] = array[t + 1], ![t + 1] = array[h + 1]]

\* The images the functions are called on: an input and an output of the
\* same dimensions, the output with or without repeated colours.
SwapInputs(n) == {[i \in 1 .. n |-> rgb(((n - i) * 21) % num_colors)]}

SwapOutputs(n) ==
    {[i \in 1 .. n |-> rgb(((i - 1) * 21) % num_colors)],
     [i \in 1 .. n |-> rgb((((i - 1) \div 2) * 42) % num_colors)]}

\* Colours that memory overwritten by a stray write can hold.
StrayColors == {rgb(v) : v \in 0 .. MaxCorruptVal}

InitSwap ==
    /\ bits = Bits
    /\ CurveIdle
    /\ PaletteIdle
    /\ GridIdle
    /\ traversal = "none"
    /\ transform = NoTransform
    /\ \E r \in 1 .. BlurSide, c \in 1 .. BlurSide + MaxCols :
        /\ \/ r <= MaxRows /\ c <= MaxCols /\ r * c <= MaxPixels
           \/ r = BlurSide /\ c = BlurSide
        /\ \E d \in SwapInputs(r * c) : input = [rows |-> r, cols |-> c, data |-> d]
        /\ output \in SwapOutputs(r * c)
    /\ dithered \in BOOLEAN
    /\ passes \in 0 .. MaxPasses
    /\ pass = 0
    /\ here_idxs = <<>>
    /\ there_idxs = <<>>
    /\ swi = 0
    /\ output_lab = <<>>
    /\ blurred_neighbors = <<>>
    /\ original = output
    /\ spc = "call"

\* compare_and_swap up to its loop: output_lab = array2d<lab> {output}.
CompareAndSwap ==
    /\ spc = "call"
    /\ ~dithered
    /\ output_lab' = [i \in 1 .. Len(output) |-> lab(output[i])]
    /\ spc' = "pass"
    /\ UNCHANGED <<bits, curveVars, paletteVars, gridVars, mainVars,
                   input, dithered, passes, pass, here_idxs, there_idxs, swi,
                   blurred_neighbors, original>>

\* compare_and_swap_dithered up to its loop: blurred_neighbors[i] =
\* blur_around(output, i) for every i.  Where blur_around reads outside
\* output.data the values read are indeterminate, or the read faults.
CompareAndSwapDithered ==
    /\ spc = "call"
    /\ dithered
    /\ \/ /\ spc' = "pass"
          /\ \E stray \in IF \A i \in 0 .. Len(output) - 1 : in_range(i)
                            THEN {rgb(0)} ELSE StrayColors :
                blurred_neighbors' =
                    [i \in 1 .. Len(output) |-> blur_around(output, i - 1, stray)]
       \/ /\ \E i \in 0 .. Len(output) - 1 : ~in_range(i)
          /\ spc' = "aborted"
          /\ UNCHANGED blurred_neighbors
    /\ UNCHANGED <<bits, curveVars, paletteVars, gridVars, mainVars,
                   input, dithered, passes, pass, here_idxs, there_idxs, swi,
                   output_lab, original>>

\* The head of the loop over the passes, and the two shuffles.
PassBegin ==
    /\ spc = "pass"
    /\ IF pass < passes
       THEN /\ here_idxs' \in shuffled(Len(output))
            /\ there_idxs' \in shuffled(Len(output))
            /\ swi' = 0
            /\ spc' = "pair"
       ELSE /\ spc' = "returned"
            /\ UNCHANGED <<here_idxs, there_idxs, swi>>
    /\ UNCHANGED <<bits, curveVars, paletteVars, gridVars, mainVars,
                   input, dithered, passes, pass, output_lab, blurred_neighbors, original>>

\* One iteration of the inner loop of compare_and_swap.
SwapStep ==
    /\ spc = "pair"
    /\ ~dithered
    /\ swi < Len(output)
    /\ LET h == here_idxs[swi + 1]
           t == there_idxs[swi + 1]
           current == diff2(output_lab[h + 1], lab(input.data[h + 1]))
                          + diff2(output_lab[t + 1], lab(input.data[t + 1]))
           swapped == diff2(output_lab[h + 1], lab(input.data[t + 1]))
                          + diff2(output_lab[t + 1], lab(input.data[h + 1]))
       IN  IF swapped < current
           THEN /\ output' = swap(output, h, t)
                /\ output_lab' = swap(output_lab, h, t)
           ELSE UNCHANGED <<output, output_lab>>
    /\ swi' = swi + 1
    /\ UNCHANGED <<bits, curveVars, paletteVars, gridVars, traversal, transform,
                   input, dithered, passes, pass, here_idxs, there_idxs,
                   blurred_neighbors, original, spc>>

\* The prefetch of compare_and_swap_dithered reads here_idxs[i + ahead]
\* under the guard i < here_idxs.size(): outside the vector for the last
\* `ahead` values of i.
ahead == 4

\* One iteration of the inner loop of compare_and_swap_dithered.  A read
\* outside here_idxs yields an address that is only prefetched, or faults.
\* update_blur adds to the neighbours of both pixels; where those lie
\* outside blurred_neighbors the write lands in other memory: the run is
\* aborted by the allocator, or goes on with an overwritten pixel.
DitherStep ==
    /\ spc = "pair"
    /\ dithered
    /\ swi < Len(here_idxs)
    /\ LET h == here_idxs[swi + 1]
           t == there_idxs[swi + 1]
           swap_delta == minus(rgb_float(output[h + 1]), rgb_float(output[t + 1]))
           nabla == minus(rgb_float(output[t + 1]), rgb_float(output[h + 1]))
           updated == update_blur(update_blur(blurred_neighbors, t, swap_delta), h, nabla)
       IN  \/ /\ swi + ahead >= Len(here_idxs)
              /\ spc' = "aborted"
              /\ UNCHANGED <<output, swi, blurred_neighbors>>
           \/ \E less \in IF output[h + 1] = output[t + 1] THEN {FALSE} ELSE BOOLEAN :
                IF ~less
                THEN /\ swi' = swi + 1
                     /\ UNCHANGED <<output, spc, blurred_neighbors>>
                ELSE IF in_range(t) /\ in_range(h)
                THEN /\ blurred_neighbors' = updated
                     /\ output' = swap(output, h, t)
                     /\ swi' = swi + 1
                     /\ UNCHANGED spc
                ELSE \/ /\ spc' = "aborted"
                        /\ UNCHANGED <<output, swi, blurred_neighbors>>
                     \/ /\ spc' = "undefined"
                        /\ blurred_neighbors' = updated
                        /\ \E k \in 1 .. Len(output), c \in StrayColors :
                              output' = [output EXCEPT ![k] = c]
                        /\ UNCHANGED swi
    /\ UNCHANGED <<bits, curveVars, paletteVars, gridVars, traversal, transform,
                   input, dithered, passes, pass, here_idxs, there_idxs,
                   output_lab, original>>

\* The end of a pass.
PassEnd ==
    /\ spc = "pair"
    /\ swi = Len(output)
    /\ pass' = pass + 1
    /\ spc' = "pass"
    /\ UNCHANGED <<bits, curveVars, paletteVars, gridVars, mainVars,
                   input, dithered, passes, here_idxs, there_idxs, swi,
                   output_lab, blurred_neighbors, original>>

NextSwap ==
    \/ CompareAndSwap
    \/ CompareAndSwapDithered
    \/ PassBegin
    \/ SwapStep
    \/ DitherStep
    \/ PassEnd

SpecSwap == InitSwap /\ [][NextSwap]_vars

(***************************************************************************)
(* Properties                                                              *)
(***************************************************************************)

\* Every colour occurs exactly once: there are as many entries as colours,
\* and every colour is among them.
EveryColorOnce(pixels) ==
    /\ Len(pixels) = num_colors
    /\ {pixels[k] : k \in 1 .. Len(pixels)} = Colors

\* C1: when rows * cols equals the number of colours, the output grid main
\* builds by output[ordering[i]] = palette[i] contains every colour exactly
\* once, whatever the transform, the spanning tree and the traversal selected
\* (and has_all_colors reports it).
C1_OutputEveryColorOnce ==
    (gpc \in {"output", "checked"} /\ rows * cols = num_colors) =>
        /\ EveryColorOnce(output)
        /\ gpc = "checked" => hac = "true"

C1_Witness ==
    /\ gpc = "checked"
    /\ rows * cols = num_colors
    /\ rows = 2
    /\ traversal = "sdfs"
    /\ transform.axis_order = <<2, 0, 1>>
    /\ transform.axis_inverted = <<FALSE, TRUE, FALSE>>
    /\ root = 5
    /\ output[1] # rgb(0)

\* C2: for every grid of R x C nodes, R, C >= 1, and every sequence of random
\* draws, after span dfs returns exactly R * C indices, all distinct, which
\* cover 0 .. R * C - 1.
C2_DfsVisitsEveryNodeOnce ==
    gpc = "dfs" =>
        /\ Len(ordering) = rows * cols
        /\ \A i, j \in 1 .. Len(ordering) : i # j => ordering[i] # ordering[j]
        /\ {ordering[k] : k \in 1 .. Len(ordering)} = 0 .. rows * cols - 1

C2_Witness ==
    /\ gpc = "dfs"
    /\ rows = 2
    /\ cols = 4
    /\ root = 5
    /\ Len(ordering) = 8
    /\ ordering[8] = 0

\* C3: hilbert_decode(hilbert_encode(c)) = c for every colour c of the cube:
\* decoding the index that encode produced gives back the colour encoded.
C3_RoundTrip == dec # NoColor => dec = lhs

C3_Witness == dec # NoColor /\ lhs = [r |-> 1, g |-> 2, b |-> 3]

MidColors == {rgb((k * 37) % num_colors) : k \in 0 .. MaxMid}

\* C4: hilbert_compare(a, b) is true exactly when hilbert_encode(a) <
\* hilbert_encode(b); it is irreflexive, for a # b exactly one of
\* compare(a, b) and compare(b, a) holds, and it is transitive.
C4_CompareIsEncodeOrder ==
    cmp # "unset" =>
        /\ (cmp = "true") <=> (hilbert_encode(lhs) < hilbert_encode(rhs))
        /\ lhs = rhs => cmp = "false"
        /\ lhs # rhs => ((cmp = "true") <=> ~hilbert_compare(rhs, lhs))
        /\ \A z \in MidColors :
               (cmp = "true" /\ hilbert_compare(rhs, z)) => hilbert_compare(lhs, z)

\* Two different colours of the same top-level octant, ordered by a later step.
C4_Witness ==
    /\ cmp = "true"
    /\ lhs # rhs
    /\ get_octant(lhs, 0) = get_octant(rhs, 0)

\* C5: make_palette called with num_colors returns a sequence of exactly that
\* length in which every colour occurs exactly once.
C5_FullPaletteEveryColorOnce ==
    (ppc = "returned" /\ palette_size = num_colors /\ corrupts = 0) =>
        EveryColorOnce(colors)

C5_Witness ==
    /\ ppc = "returned"
    /\ palette_size = num_colors
    /\ corrupts = 0
    /\ Len(colors) = num_colors

Gap(i) == hilbert_encode(colors[i + 1]) - hilbert_encode(colors[i])
FloorGap == num_colors \div (palette_size - 1)
CeilGap == IF num_colors % (palette_size - 1) = 0 THEN FloorGap ELSE FloorGap + 1
Sampled == ppc = "returned" /\ palette_size >= 2 /\ palette_size # num_colors

\* C7 as claimed: every two consecutive entries of a sampled palette,
\* the last pair included, are floor or ceil of num_colors/(n-1) apart.
C7_EveryGapFloorOrCeil ==
    Sampled => \A i \in 1 .. Len(colors) - 1 : Gap(i) \in {FloorGap, CeilGap}

\* C7: in a sampled palette every two consecutive entries other than the
\* last pair are floor or ceil of num_colors/(n-1) apart on the curve; the gap
\* before the forced last entry is ceil(num_colors/(n-1)) - 1, which is the
\* floor unless n-1 divides num_colors, and one less than the floor if it does.
C7_GapsFloorOrCeilButLast ==
    Sampled =>
        /\ \A i \in 1 .. Len(colors) - 2 : Gap(i) \in {FloorGap, CeilGap}
        /\ Gap(Len(colors) - 1) = CeilGap - 1

\* A sampled palette whose size minus one divides the number of colours:
\* the gap before the last entry is one less than the floor.
C7_Witness ==
    /\ Sampled
    /\ palette_size = 9
    /\ Gap(Len(colors) - 1) = FloorGap - 1
    /\ Gap(1) = FloorGap

\* C8: a sampled palette of size n >= 2 has exactly n entries, the first is
\* hilbert_decode(0) and the last is hilbert_decode(num_colors - 1).
C8_SampledPaletteEnds ==
    Sampled =>
        /\ Len(colors) = palette_size
        /\ colors[1] = hilbert_decode(0)
        /\ colors[Len(colors)] = hilbert_decode(num_colors - 1)

C8_Witness ==
    /\ Sampled
    /\ palette_size = 7
    /\ Len(colors) = 7
    /\ colors[1] # colors[7]

\* The full palette before any entry was overwritten.
Pristine(i) == IF ppc = "sorted" THEN hilbert_decode(i - 1) ELSE rgb(i - 1)

\* C9: has_all_colors returns true exactly when the vector has num_colors
\* entries and every colour occurs in it exactly once; it returns false when
\* one entry of a full palette was changed to a different colour.
C9_HasAllColorsIff ==
    hac # "unset" =>
        /\ (hac = "true") <=> EveryColorOnce(colors)
        /\ ( /\ palette_size = num_colors
             /\ Cardinality({i \in 1 .. Len(colors) : colors[i] # Pristine(i)}) = 1 )
           => hac = "false"

C9_Witness ==
    /\ hac = "false"
    /\ palette_size = num_colors
    /\ corrupts = 1
    /\ Len(colors) = num_colors

\* C10: a request for a palette of size 0 or 1 is rejected before any curve
\* sampling: no hilbert_decode call is made and no palette is returned.
C10_SmallSizeRejected ==
    palette_size < 2 => (decode_calls = 0 /\ ppc \notin {"returned", "sorted"})

\* C11: a grid graph constructed with rows <= 0 or cols <= 0 is rejected as
\* invalid: the constructor does not return a graph (an exception thrown by
\* the constructor counts as a rejection), so span is never entered, no root
\* is drawn, no walk is started and no traversal is produced.
C11_NonPositiveRejected ==
    (rows <= 0 \/ cols <= 0) => gpc \in {"construct", "length_error"}

\* C12: two runs with the same seed, rows, cols and traversal selector
\* produce the same root, the same spanning tree and the same traversal.
C12_SameSeedSameResult ==
    (first_run # <<>> /\ gpc = first_run[1].selector) =>
        /\ root = first_run[1].root
        /\ nodes = first_run[1].nodes
        /\ ordering = first_run[1].ordering

\* The traversal that was run last, if one was.
Traversed == gpc \in {"dfs", "sdfs", "bfs"}

\* C13: on a built tree of N = rows * cols nodes dfs, sdfs and bfs each return
\* a sequence of length N that is a permutation of 0 .. N - 1 and starts with
\* the root; on a 1 x 1 grid each returns <<0>>.
C13_TraversalsArePermutations ==
    Traversed =>
        /\ Len(ordering) = rows * cols
        /\ {ordering[k] : k \in 1 .. Len(ordering)} = 0 .. rows * cols - 1
        /\ ordering[1] = root
        /\ (rows = 1 /\ cols = 1) => ordering = <<0>>

C13_Witness ==
    /\ gpc = "sdfs"
    /\ rows = 2
    /\ cols = 4
    /\ root = 6
    /\ ordering[1] = 6
    /\ ordering[8] = 0

\* The parent of a node that is not the root, and the depth of a node in the
\* tree span built.
parent_of(i) == i + jump(get_parent_dir(node_at(i)))

RECURSIVE tree_depth(_)
tree_depth(i) == IF i = root THEN 0 ELSE 1 + tree_depth(parent_of(i))

\* The place of node i in the traversal.
position(i) == CHOOSE k \in 1 .. Len(ordering) : ordering[k] = i

\* C14: the bfs output is sorted by distance from the root, and nodes of equal
\* depth appear as they were enqueued: by the place of their parents, and
\* under one parent by the direction up, right, down, left of the child.
C14_BfsByDepth ==
    gpc = "bfs" =>
        \A i, j \in 1 .. Len(ordering) :
            i < j =>
                /\ tree_depth(ordering[i]) <= tree_depth(ordering[j])
                /\ (tree_depth(ordering[i]) = tree_depth(ordering[j]) /\ ordering[i] # root) =>
                       \/ position(parent_of(ordering[i])) < position(parent_of(ordering[j]))
                       \/ /\ parent_of(ordering[i]) = parent_of(ordering[j])
                          /\ opposite_of(get_parent_dir(node_at(ordering[i])))
                                 < opposite_of(get_parent_dir(node_at(ordering[j])))

\* A tree of depth three at least in which two nodes share a depth.
C14_Witness ==
    /\ gpc = "bfs"
    /\ rows = 2
    /\ cols = 4
    /\ tree_depth(ordering[8]) >= 3
    /\ tree_depth(ordering[2]) = tree_depth(ordering[3])

\* The height of the subtree of a node: 0 for a leaf.
RECURSIVE subtree_height(_)
subtree_height(i) ==
    LET kids == children(i)
        over == {subtree_height(kids[k]) + 1 : k \in 1 .. Len(kids)} \cup {0}
    IN CHOOSE h \in over : \A g \in over : g <= h

\* C15: in the sdfs output the node right after a node p with two children or
\* more is a child of p whose subtree is no higher than that of any other
\* child of p.
C15_SdfsShortestFirst ==
    gpc = "sdfs" =>
        \A k \in 1 .. Len(ordering) - 1 :
            LET kids == children(ordering[k])
            IN Len(kids) >= 2 =>
                   /\ \E c \in 1 .. Len(kids) : kids[c] = ordering[k + 1]
                   /\ \A c \in 1 .. Len(kids) :
                          subtree_height(ordering[k + 1]) <= subtree_height(kids[c])

\* The root has two children of different heights, the higher one met first
\* by the loop over the directions.
C15_Witness ==
    /\ gpc = "sdfs"
    /\ Len(children(root)) >= 2
    /\ subtree_height(children(root)[1]) > subtree_height(children(root)[2])
    /\ ordering[2] = children(root)[2]

\* The preorder of the subtree of i that visits the child subtrees in the
\* direction order up, right, down, left.
RECURSIVE preorder_from(_)
preorder_from(i) ==
    LET sub(d) == IF HasBit(node_at(i), child_mask(d))
                  THEN preorder_from(i + jump(d)) ELSE <<>>
    IN <<i>> \o sub(up) \o sub(right) \o sub(down) \o sub(left)

\* C16: dfs returns the preorder that starts with the root and visits, at
\* every node, the child subtrees in the order up, right, down, left.
C16_DfsDirectionOrder ==
    gpc = "dfs" => ordering = preorder_from(root)

\* i and j are nodes of the grid next to each other in a row or in a column.
grid_neighbours(i, j) ==
    /\ i \in 0 .. rows * cols - 1
    /\ j \in 0 .. rows * cols - 1
    /\ \/ (i \div cols = j \div cols /\ (i - j = 1 \/ j - i = 1))
       \/ (i % cols = j % cols /\ (i \div cols - j \div cols = 1 \/ j \div cols - i \div cols = 1))

\* The node the parent direction stored in node i leads to.
stored_parent(i) ==
    LET dir == (nodes[i + 1] \div 16) % 4
    IN i + (IF dir = 0 THEN 0 - cols ELSE IF dir = 1 THEN 1 ELSE IF dir = 2 THEN cols ELSE 0 - 1)

\* Following the stored parents from i reaches the root in n steps at most.
RECURSIVE reaches_root(_, _)
reaches_root(i, n) ==
    \/ i = root
    \/ /\ n > 0
       /\ grid_neighbours(i, stored_parent(i))
       /\ reaches_root(stored_parent(i), n - 1)

SpanDone == gpc \in {"built", "dfs", "sdfs", "bfs"}

\* C18: after span the root is the one node without a parent edge, every
\* other node is in the tree and has one parent, which is a grid neighbour of
\* it (rows * cols - 1 parent edges), and following the parents from any node
\* reaches the root in fewer than rows * cols steps, so without a revisit.
C18_SpanIsTree ==
    SpanDone =>
        /\ root \in 0 .. rows * cols - 1
        /\ \A i \in 0 .. rows * cols - 1 : (nodes[i + 1] \div 128) % 2 = 1
        /\ \A i \in (0 .. rows * cols - 1) \ {root} : grid_neighbours(i, stored_parent(i))
        /\ Cardinality({<<i, stored_parent(i)>> : i \in (0 .. rows * cols - 1) \ {root}})
               = rows * cols - 1
        /\ \A i \in 0 .. rows * cols - 1 : reaches_root(i, rows * cols - 1)

\* A tree in which a node is seven parent edges from the root.
C18_Witness ==
    /\ gpc = "built"
    /\ rows = 2
    /\ cols = 4
    /\ root = 4
    /\ reaches_root(0, 7)
    /\ ~reaches_root(0, 6)

\* C20: every step of a random walk of span leads from the current node to a
\* node of the grid next to it in its row or in its column: never off the
\* grid, never from the end of a row to the start of the next.
C20_WalkStaysOnGrid ==
    [][(gpc = "walk" /\ gpc' = "walk") => grid_neighbours(here, here')]_vars

\* A walk from the end of the first row that is now at the start of the second.
C20_Witness ==
    /\ gpc = "walk"
    /\ rows = 2
    /\ cols = 4
    /\ start = 3
    /\ here = 4

\* The colours of an image with the number of pixels holding each.
colour_count(pixels) ==
    [c \in {pixels[k] : k \in 1 .. Len(pixels)} |->
        Cardinality({k \in 1 .. Len(pixels) : pixels[k] = c})]

\* While compare_and_swap runs, and after it, output_lab[i] is the Lab
\* conversion of output[i].
CacheMatches ==
    (~dithered /\ spc \in {"pass", "pair", "returned"}) =>
        \A i \in 1 .. Len(output) : output_lab[i] = lab(output[i])

\* C19: compare_and_swap and compare_and_swap_dithered only permute the
\* output image: whatever the passes and the pairings, the colours of output
\* with their multiplicities are those it held when the function was called,
\* and in compare_and_swap output_lab[i] is always the Lab conversion of
\* output[i].
C19_OnlyPermutes ==
    spc # "idle" => (colour_count(output) = colour_count(original) /\ CacheMatches)

\* span is in one of its two while loops: the root is chosen, link_children
\* has not run.
InSpan == gpc \in {"walk", "commit"}

\* The in-tree flag of node i in the node bytes nds.
marked(nds, i) == (nds[i + 1] \div 128) % 2 = 1

\* Following the stored parents from i reaches the root in n steps at most,
\* and i and every node on the way carry the in-tree flag.
RECURSIVE reaches_root_in_tree(_, _)
reaches_root_in_tree(i, n) ==
    /\ marked(nodes, i)
    /\ \/ i = root
       \/ /\ n > 0
          /\ grid_neighbours(i, stored_parent(i))
          /\ reaches_root_in_tree(stored_parent(i), n - 1)

\* The in-tree nodes form a tree rooted at the root.
TreeRootedAtRoot ==
    /\ marked(nodes, root)
    /\ \A i \in 0 .. rows * cols - 1 :
           marked(nodes, i) => reaches_root_in_tree(i, rows * cols - 1)

\* No step of span clears an in-tree flag or changes the parent direction of
\* a node that is in the tree.
InTreeKept ==
    InSpan =>
        \A i \in 0 .. rows * cols - 1 :
            marked(nodes, i) =>
                /\ marked(nodes', i)
                /\ (nodes'[i + 1] \div 16) % 4 = (nodes[i + 1] \div 16) % 4

\* C21: at every point of span after the root is chosen the in-tree nodes
\* form a tree rooted at the root (the parent directions lead from every
\* in-tree node through in-tree nodes to the root, without a cycle), an
\* in-tree flag is never cleared, and the parent direction of an in-tree node
\* is never overwritten.
C21_InTreeAlwaysTree ==
    [](InSpan => TreeRootedAtRoot) /\ [][InTreeKept]_vars

\* The nodes from i up to, and without, the first in-tree node on the way
\* along the stored parent directions, n of them at most.
RECURSIVE pending_path(_, _)
pending_path(i, n) ==
    IF n = 0 \/ marked(nodes, i) THEN {}
    ELSE {i} \cup pending_path(stored_parent(i), n - 1)

\* Following the stored parents from i reaches the root in n steps at most,
\* and i and every node on the way is in the tree or among `allowed`.
RECURSIVE reaches_root_through(_, _, _)
reaches_root_through(i, n, allowed) ==
    /\ marked(nodes, i) \/ i \in allowed
    /\ \/ i = root
       \/ /\ n > 0
          /\ grid_neighbours(i, stored_parent(i))
          /\ reaches_root_through(stored_parent(i), n - 1, allowed)

\* C21, amended: outside the second while loop of span the in-tree nodes
\* form a tree rooted at the root; while that loop commits a path, the parent
\* directions lead from every in-tree node to the root without a cycle,
\* through in-tree nodes and through the part of the path from `here` that is
\* not yet marked.  An in-tree flag is never cleared and the parent direction
\* of an in-tree node is never overwritten.
C21_InTreeTreeOncePathCommitted ==
    /\ [](InSpan =>
            /\ marked(nodes, root)
            /\ \A i \in 0 .. rows * cols - 1 :
                   marked(nodes, i) =>
                       reaches_root_through(i, rows * cols - 1,
                           IF gpc = "commit" THEN pending_path(here, rows * cols) ELSE {}))
    /\ [][InTreeKept]_vars

\* A path of three nodes or more is half committed on the 2 x 4 grid: its
\* start is marked, `here` and another node of it are not.
C21_Witness ==
    /\ gpc = "commit"
    /\ rows = 2
    /\ cols = 4
    /\ marked(nodes, start)
    /\ ~marked(nodes, here)
    /\ Cardinality(pending_path(here, rows * cols)) >= 2
    /\ ~TreeRootedAtRoot

\* The nodes met by following the stored parent directions from i for as
\* long as they are nodes the current walk left a direction in, n at most.
RECURSIVE recorded_path(_, _)
recorded_path(i, n) ==
    IF n = 0 \/ i \notin walked THEN <<>>
    ELSE <<i>> \o recorded_path(stored_parent(i), n - 1)

\* The second while loop of span has ended: the walk from start is committed.
Committed == gpc = "commit" /\ marked(nodes, here)

\* C22: when the walk from a start node has ended on an in-tree node and the
\* commit pass is over, the nodes it marked in-tree are exactly those on the
\* path that follows the last recorded direction of each node from the start
\* up to, and without, the first node that was already in the tree; that path
\* never revisits a node, and every other node the walk visited (those only
\* inside an erased loop) is still not in-tree.
C22_CommitMarksErasedPath ==
    /\ [](Committed =>
            LET path == recorded_path(start, rows * cols + 1)
                on_path == {path[k] : k \in 1 .. Len(path)}
            IN  /\ Len(path) <= rows * cols
                /\ Cardinality(on_path) = Len(path)
                /\ here \notin walked
                /\ here = IF path = <<>> THEN start ELSE stored_parent(path[Len(path)])
                /\ \A i \in walked : marked(nodes, i) <=> i \in on_path)
    /\ [][gpc = "commit" =>
            \A i \in 0 .. rows * cols - 1 :
                (marked(nodes', i) /\ ~marked(nodes, i)) => i \in walked]_vars

\* A walk on the 2 x 4 grid visited five nodes and three of them are committed.
C22_Witness ==
    /\ Committed
    /\ rows = 2
    /\ cols = 4
    /\ Cardinality(walked) = 5
    /\ Len(recorded_path(start, rows * cols + 1)) = 3

\* The nodes that can be reached from the nodes of `seen` by steps of the walk.
RECURSIVE walk_reachable(_)
walk_reachable(seen) ==
    IF one_step(seen) = seen THEN seen ELSE walk_reachable(one_step(seen))

\* C23: with fair draws every random walk of span lands on an in-tree node,
\* every commit pass ends, and span ends with every node in the tree; and in
\* every state of a walk an in-tree node can be reached from the current node.
C23_SpanTerminates ==
    /\ [](gpc = "walk" => \E i \in walk_reachable({here}) : marked(nodes, i))
    /\ [](gpc = "walk" => <>(gpc = "commit"))
    /\ [](gpc = "commit" => <>(gpc # "commit"))
    /\ [](gpc \in {"walk", "commit"} =>
            <>(gpc = "built" /\ \A i \in 0 .. rows * cols - 1 : marked(nodes, i)))

\* A walk on the 2 x 2 grid that has formed a loop: it is back at its start
\* after it visited every node but the root.
C23_Witness ==
    /\ gpc = "walk"
    /\ rows = 2
    /\ cols = 2
    /\ here = start
    /\ Cardinality(walked) = 3
    /\ Cardinality({i \in 0 .. rows * cols - 1 : marked(nodes, i)}) = 1

\* The index offset of a step in direction d: up, right, down, left.
dir_offset(d) == IF d = 0 THEN 0 - cols ELSE IF d = 1 THEN 1 ELSE IF d = 2 THEN cols ELSE 0 - 1

\* Bit d of the low four bits of node p.
low_bit(p, d) == (nodes[p + 1] \div (2 ^ d)) % 2 = 1

\* Node c is not the root and its stored parent direction is the opposite of d.
child_towards(c, d) ==
    /\ c \in 0 .. rows * cols - 1
    /\ c # root
    /\ (nodes[c + 1] \div 16) % 4 = (d + 2) % 4

\* C24: after link_children the low four bits of the nodes are the inverse
\* of the parent relation: bit d of node p is set if and only if p + jump[d]
\* is a node other than the root whose parent direction is opposite_of(d).
\* So no boundary bit is left, the root sets no bit, and rows * cols - 1 bits
\* are set in all.
C24_ChildBitsInverseOfParents ==
    SpanDone =>
        /\ \A p \in 0 .. rows * cols - 1 : \A d \in 0 .. 3 :
               low_bit(p, d) <=> child_towards(p + dir_offset(d), d)
        /\ Cardinality({pd \in (0 .. rows * cols - 1) \X (0 .. 3) : low_bit(pd[1], pd[2])})
               = rows * cols - 1

\* On the 2 x 4 grid a node of the top row with three children: the bit of
\* its boundary direction is clear, the three others are set.
C24_Witness ==
    /\ gpc = "built"
    /\ rows = 2
    /\ cols = 4
    /\ \E p \in 1 .. 2 :
           /\ ~low_bit(p, 0)
           /\ low_bit(p, 1)
           /\ low_bit(p, 2)
           /\ low_bit(p, 3)

\* The directions that the boundary-flag pattern i does not flag.
valid_directions(i) == {d \in 0 .. 3 : (i \div (2 ^ d)) % 2 = 0}

\* The slots of row i of the neighbours table that hold direction d.
slots_of(i, d) == {j \in 0 .. 11 : neighbors(i, j) = {d}}

\* C25: when the constructor has built the neighbours table, for every
\* boundary-flag pattern 0 .. 14 each of the 12 slots of the
\* neighbours table holds a direction the pattern does not flag, and every
\* such direction holds the same number of slots, 12 / k for k directions: a
\* uniform draw of a slot is a uniform draw of a valid direction.
C25_TableDrawsUniformly ==
    gpc = "span" =>
        \A i \in 0 .. 14 :
            /\ \A j \in 0 .. 11 : \E d \in valid_directions(i) : neighbors(i, j) = {d}
            /\ \A d \in valid_directions(i) :
                   Cardinality(slots_of(i, d)) * Cardinality(valid_directions(i)) = 12

\* The table built for the 2 x 4 grid: the pattern of a corner has two valid
\* directions in six slots each, the pattern of the top row three in four
\* slots each, the pattern of an inner node four in three slots each.
C25_Witness ==
    /\ gpc = "span"
    /\ rows = 2
    /\ cols = 4
    /\ \A d \in {1, 2} : Cardinality(slots_of(at_edge(up) + at_edge(left), d)) = 6
    /\ \A d \in {1, 2, 3} : Cardinality(slots_of(at_edge(up), d)) = 4
    /\ \A d \in 0 .. 3 : Cardinality(slots_of(0, d)) = 3

\* The children of node p that its low four bits name.
child_set(p) == {p + dir_offset(d) : d \in {e \in 0 .. 3 : low_bit(p, e)}}

\* The heights array of sdfs after its first loop.
sdfs_heights == heights_loop(dfs, [i \in 1 .. rows * cols |-> 0])

\* The place of node i in the sequence ord.
place_in(ord, i) == CHOOSE k \in 1 .. Len(ord) : ord[k] = i

\* C26: the heights sdfs computes by consuming the dfs preorder from its back
\* are 0 for a node without children and 1 + the greatest height of its
\* children for any other node; and every child stands after its parent in
\* the preorder, so that its height is written before its parent's is
\* computed.
C26_HeightsFromLeaves ==
    gpc = "sdfs" =>
        LET heights == sdfs_heights
            order == dfs
        IN  /\ \A p \in 0 .. rows * cols - 1 :
                   /\ child_set(p) = {} => heights[p + 1] = 0
                   /\ child_set(p) # {} =>
                          /\ \E c \in child_set(p) : heights[p + 1] = 1 + heights[c + 1]
                          /\ \A c \in child_set(p) : heights[p + 1] >= 1 + heights[c + 1]
            /\ \A p \in 0 .. rows * cols - 1 : \A c \in child_set(p) :
                   place_in(order, c) > place_in(order, p)

\* On the 2 x 4 grid a node with two children of heights 0 and 2, itself of
\* height 3.
C26_Witness ==
    /\ gpc = "sdfs"
    /\ rows = 2
    /\ cols = 4
    /\ LET heights == sdfs_heights
       IN  \E p \in 0 .. rows * cols - 1 :
               /\ heights[p + 1] = 3
               /\ {heights[c + 1] : c \in child_set(p)} = {0, 2}

\* The entries of a sequence are all different.
all_distinct(pixels) == Cardinality({pixels[k] : k \in 1 .. Len(pixels)}) = Len(pixels)

\* C27: the transform make_random returns maps the colour cube onto itself
\* one to one; the transforms it can return are 48 different maps of the
\* cube; and main applies the one transform of the run to every entry of the
\* palette, so that a palette of different colours stays one.
C27_TransformIsCubeSymmetry ==
    [][(ppc = "sorted" /\ ppc' = "transformed") =>
          /\ transform' \in Transforms
          /\ {apply_transform(transform', c) : c \in Colors} = Colors
          /\ Cardinality({[c \in Colors |-> apply_transform(t, c)] : t \in Transforms}) = 48
          /\ Len(colors') = Len(colors)
          /\ \A i \in 1 .. Len(colors) : colors'[i] = apply_transform(transform', colors[i])
          /\ all_distinct(colors) => all_distinct(colors')]_vars

\* A palette of all the colours of the cube, transformed by a rotation of
\* the channels with two of them complemented.
C27_Witness ==
    /\ ppc = "transformed"
    /\ transform = [axis_order |-> <<1, 2, 0>>, axis_inverted |-> <<TRUE, FALSE, TRUE>>]
    /\ Len(colors) = num_colors
    /\ all_distinct(colors)

\* Two colours differ by one in one channel and agree in the two others.
adjacent_colours(c, e) ==
    LET gap(x, y) == IF x >= y THEN x - y ELSE y - x
    IN  gap(c.r, e.r) + gap(c.g, e.g) + gap(c.b, e.b) = 1

\* C28: the curve starts at black, ends at blue (0, 0, 255), and is
\* continuous: hilbert_encode((0, 0, 0)) = 0, hilbert_decode(num_colors - 1)
\* = (0, 0, 255), and the colours hilbert_decode gives for an index and for
\* the next differ by one in one channel only.
C28_CurveContinuous ==
    /\ (enc # <<>> /\ lhs = [r |-> 0, g |-> 0, b |-> 0]) => enc[1] = 0
    /\ (dec # NoColor /\ enc[1] = num_colors - 1) => dec = [r |-> 0, g |-> 0, b |-> Side - 1]
    /\ (dec # NoColor /\ enc[1] < num_colors - 1) =>
           adjacent_colours(dec, hilbert_decode(enc[1] + 1))

\* A decoded index that is the last of the first octant: its successor on the
\* curve lies in the next octant.
C28_Witness ==
    /\ dec # NoColor
    /\ enc[1] = num_colors \div 8 - 1
    /\ hilbert_decode(enc[1] + 1) # dec

\* C29: in compare_and_swap_dithered on an image of at least two rows and two
\* columns, blurred_neighbors[i] is blur_around(output, i) for every pixel i
\* before the first pairing and after every pairing, swapped or not, of
\* neighbours or not.
C29_BlurCacheExact ==
    (dithered /\ spc \in {"pass", "pair", "returned"}
        /\ input.rows >= 2 /\ input.cols >= 2) =>
        \A i \in 1 .. Len(output) :
            blurred_neighbors[i] = blur_around(output, i - 1, rgb(0))

\* On the image of BlurSide rows, the pixel in the middle and the corner
\* pixel beside it have been swapped first, then the last pixel of the first
\* row and the first of the last row, which are not neighbours.
C29_Witness ==
    /\ dithered
    /\ spc = "pair"
    /\ input.rows = BlurSide
    /\ input.cols = BlurSide
    /\ swi = BlurSide
    /\ here_idxs[1] = BlurSide + 1
    /\ there_idxs[1] = 0
    /\ original[1] # original[BlurSide + 2]
    /\ output[1] = original[BlurSide + 2]
    /\ output[BlurSide + 2] = original[1]
    /\ here_idxs[BlurSide] = 2 * BlurSide
    /\ there_idxs[BlurSide] = BlurSide - 1
    /\ original[BlurSide] # original[2 * BlurSide + 1]
    /\ output[BlurSide] = original[2 * BlurSide + 1]
    /\ output[2 * BlurSide + 1] = original[BlurSide]
    /\ \E i \in 1 .. Len(output) :
          blurred_neighbors[i] # blur_around(original, i - 1, rgb(0))

\* C30: in compare_and_swap_dithered every read of here_idxs and there_idxs
\* is at an index below their size: an iteration of the inner loop reads
\* them at i, and at i + ahead for the prefetch, and both are in range.
C30_PrefetchInRange ==
    [][DitherStep => (swi < Len(here_idxs) /\ swi + ahead < Len(here_idxs)
                        /\ swi + ahead < Len(there_idxs))]_vars

====
